---- MODULE Spec2Model ----
(***************************************************************************)
(* The job-lifecycle protocol of the ConvertHub example scripts: submit,   *)
(* poll, terminal-state dispatch and optional download, as each script     *)
(* implements it, and the chunked upload session that precedes the poll    *)
(* loop of upload-large-file.py.  One run of one script is one behaviour:  *)
(* Init picks the script and its command line, the remote API's answers    *)
(* are chosen at each request.                                             *)
(***************************************************************************)
EXTENDS Integers, Sequences, FiniteSets, TLC

VARIABLES
    flow,             \* the script that runs
    env,              \* what the checks before the first request find
    chunk_opt,        \* the --chunk-size option of upload-large-file.py
    file_size,        \* st_size of the input file of upload-large-file.py
    pc,               \* position in the script
    exitCode,         \* the process's exit status, -1 while it runs
    outcome,          \* what the result handler reported
    status,           \* the local variable status
    attempts,         \* the loop counter of the poll loop
    job_status,       \* the job descriptor the result handler reads
    previous_status,  \* check_status: the status printed last
    download,         \* what became of the output file
    chunk_size,       \* bytes per chunk
    total_chunks,     \* announced chunk count
    chunk_index,      \* index of the next chunk
    file_pos,         \* read position in the input file
    session,          \* the upload session's requests, in the order sent
    reqs,             \* history: status requests sent
    sleeps,           \* history: time.sleep(2) calls made
    sleepsSince,      \* history: sleeps since the last status request (capped)
    gapBad,           \* history: two status requests not one sleep apart
    polled,           \* history: what the last status response carried
    steady,           \* history: every status response was 2xx with a waiting status
    pollErr,          \* history: a status response had HTTP >= 400
    afterPollErr,     \* history: a request or sleep happened after that
    failed,           \* history: some HTTP call raised or had HTTP >= 400
    afterFail,        \* history: a request was sent after that
    WEBHOOK_SECRET,   \* webhook-receiver.py: the configured secret, "" when unset
    request,          \* per handler thread: the POST /webhook request it handles
    wpc,              \* per handler thread: its position in webhook()
    event_data,       \* per handler thread: the local variable event_data
    response,         \* per handler thread: the response it returned
    logged,           \* records appended to webhook_events.log
    resultAt,         \* history: the status of the descriptor whose result was rendered
    errorAt,          \* history: the status of the descriptor whose error was rendered
    total_size,       \* download_result: the content-length read, 0 when not sent
    actual_size,      \* download_result: bytes in the output file
    warned,           \* download_result: the size mismatch warning was printed
    interrupted,      \* history: where a keyboard interrupt arrived, "no" if none did
    force,            \* cancel-job.py, delete-file.py: --force was given
    answered,         \* cancel-job.py, delete-file.py: the answer to the confirmation
    deletes,          \* history: DELETE requests sent
    cached            \* history: the submit response was a completed job with its file

web == <<WEBHOOK_SECRET, request, wpc, event_data, response, logged>>
dl == <<total_size, actual_size, warned, interrupted>>
shown == <<resultAt, errorAt>>
\* the command line, and what only the receiver or download-result.py change
cfg == <<flow, env, chunk_opt, file_size, web, dl, force>>
del == <<answered, deletes>>
inputs == <<cfg, shown, del, cached>>
ctl == <<pc, exitCode, outcome>>
poll == <<status, attempts, job_status, previous_status>>
upl == <<chunk_size, total_chunks, chunk_index, file_pos, session>>
hist == <<reqs, sleeps, sleepsSince, gapBad, polled, steady, pollErr,
          afterPollErr, failed, afterFail>>
vars == <<flow, env, chunk_opt, file_size, pc, exitCode, outcome, status,
          attempts, job_status, previous_status, download, chunk_size,
          total_chunks, chunk_index, file_pos, session, reqs, sleeps,
          sleepsSince, gapBad, polled, steady, pollErr, afterPollErr,
          failed, afterFail, WEBHOOK_SECRET, request, wpc, event_data,
          response, logged, resultAt, errorAt, total_size, actual_size,
          warned, interrupted, force, answered, deletes, cached>>

---------------------------------------------------------------------------
(* Program constants *)

MiB == 1048576
DefaultChunkMB == 5
MaxAttemptsSimple == 60
MaxAttemptsUrl == 90
MaxAttemptsOcr == 150
MaxAttemptsChunked == 180
MaxAttemptsWatch == 300

(* Bounds of the model *)

MaxChunkMB == 2
MaxFileMB == 2
ScenarioFileMB == 12
MaxDownload == 2

---------------------------------------------------------------------------
(* The remote API's answers *)

Terminal == {"completed", "failed", "cancelled"}
Waiting == {"processing", "queued", "pending"}
Statuses == Waiting \cup Terminal
\* a status field may also hold a string outside the enumeration, or be missing
BodyStatuses == Statuses \cup {"other", "absent"}
\* the result object: missing, present without download_url, present with it
Results == {"absent", "nourl", "url"}
OkCodes == {200, 202}
ErrCodes == {400, 500}

Resp(k, c, j, i, s, r, e) ==
    [kind |-> k, code |-> c, json |-> j, id |-> i, status |-> s,
     result |-> r, error |-> e]

\* a call that raises instead of returning a response
ExcResponses == {Resp("exception", 0, FALSE, FALSE, "absent", "absent", FALSE)}
\* HTTP >= 400: the body is {"error": {...}} or is not JSON at all
ErrorResponses ==
    {Resp("http", c, j, FALSE, "absent", "absent", j) : c \in ErrCodes, j \in BOOLEAN}
\* HTTP < 400 whose body is not JSON
GarbledResponses ==
    {Resp("http", c, FALSE, FALSE, "absent", "absent", FALSE) : c \in OkCodes}
\* HTTP < 400 with a JSON object: any status, with or without id, result, error
JsonResponses ==
    {Resp("http", c, TRUE, x[1], x[2], x[3], x[4]) :
        c \in OkCodes, x \in BOOLEAN \X BodyStatuses \X Results \X BOOLEAN}

Responses == ExcResponses \cup ErrorResponses \cup GarbledResponses \cup JsonResponses
\* GET /jobs/{job_id}: success is a 200, a JSON descriptor carries the job_id it
\* was asked for, and a job that still waits has neither result nor error yet
StatusResponses ==
    {r \in Responses :
        r.kind = "http" /\ r.code < 400 =>
            /\ r.code = 200
            /\ r.json => r.id
            /\ r.status \in Waiting => r.result = "absent" /\ ~r.error}
\* responses of which only the status line is read
BareResponses ==
    ExcResponses \cup ErrorResponses
        \cup {Resp("http", c, FALSE, FALSE, "absent", "absent", FALSE) : c \in OkCodes}

\* the answers to a DELETE: the status line, whether there is a body text and
\* whether that text is JSON
DeleteCodes == {200, 202, 204, 404, 500}
DeleteResponses ==
    {[kind |-> "exception", code |-> 0, text |-> FALSE, json |-> FALSE]}
        \cup {[kind |-> "http", code |-> c, text |-> t, json |-> j] :
                 c \in DeleteCodes, t \in BOOLEAN, j \in BOOLEAN}
\* what the user types at a (y/n) prompt
Answers == {"y", "n"}

Raised(r) == r.kind = "exception"
HttpError(r) == r.kind = "http" /\ r.code >= 400
Failure(r) == Raised(r) \/ HttpError(r)
Carried(r) ==
    IF Raised(r) THEN "exception"
    ELSE IF r.code >= 400 THEN "http_error"
    ELSE IF ~r.json THEN "not_json"
    ELSE r.status

None == [set |-> FALSE, result |-> "absent", error |-> FALSE]
Body(r) == [set |-> TRUE, result |-> r.result, error |-> r.error]

\* response.json() on a body that is not JSON raises JSONDecodeError, which is a
\* RequestException or only a ValueError depending on the requests release
JsonErrorOutcomes == {"RequestError", "Unexpected"}

\* a submit response that is the descriptor of a completed job with its file
IsCached(r) ==
    r.kind = "http" /\ r.code < 400 /\ r.json /\ r.id
        /\ r.status = "completed" /\ r.result = "url"

\* the name under which a terminal status is reported
OutcomeOfStatus(st) ==
    CASE st = "completed" -> "Completed"
      [] st = "failed" -> "Failed"
      [] st = "cancelled" -> "Cancelled"

---------------------------------------------------------------------------
(* Inputs *)

Flows ==
    {"simple", "url", "ocr", "chunked", "watch", "check", "download_result",
     "cancel", "delete"}
\* bad_input: the file is missing, of an unsupported kind or above the size limit
\* (50 MB, or 2147483648 bytes for the chunked upload), or the URL is malformed
Envs == {"ok", "no_key", "bad_input"}
Unset == [kind |-> "unset", value |-> 0]
ChunkOptions ==
    {Unset, [kind |-> "invalid", value |-> 0]}
        \cup {[kind |-> "int", value |-> v] : v \in (-1)..MaxChunkMB}
FileSizes ==
    {k * MiB + d : k \in 0..MaxFileMB, d \in {0, 1}}
        \cup {ScenarioFileMB * MiB}

max_attempts ==
    CASE flow = "simple" -> MaxAttemptsSimple
      [] flow = "url" -> MaxAttemptsUrl
      [] flow = "ocr" -> MaxAttemptsOcr
      [] flow = "chunked" -> MaxAttemptsChunked
      [] flow = "watch" -> MaxAttemptsWatch

---------------------------------------------------------------------------
(* webhook-receiver.py: requests, and the functions the handler calls *)

\* the handler threads of the server; two are enough for one request to run
\* between any two steps of another
Workers == {"t1", "t2"}

Secrets == {"", "k1"}
Keys == {"k1", "k2"}

\* the error member of a conversion.failed event: not given, or an object whose
\* message may be missing
NoError == [given |-> FALSE, message |-> "None", code |-> "None"]
ErrorPayloads ==
    {NoError} \cup [given : {TRUE}, message : {"None", "bad input"}, code : {"E1"}]

Events == {"conversion.completed", "conversion.failed", "conversion.progress",
           "upload.completed", "job.archived"}

\* a request body as sent.  form says what the bytes are: the text of a JSON
\* object, of a JSON array, text that is no JSON, or bytes that are no UTF-8,
\* UTF-16 or UTF-32 text; the other fields are the members of the object, "absent"
\* for a member that is not there.
RawBody(f, e, j, x) == [form |-> f, event |-> e, job_id |-> j, error |-> x]
ObjectBodies ==
    {RawBody("object", e, j, x) :
        e \in (Events \ {"conversion.failed"}) \cup {"absent"},
        j \in {"absent", "j1"}, x \in {NoError}}
    \cup {RawBody("object", "conversion.failed", j, x) :
            j \in {"absent", "j1"}, x \in ErrorPayloads}
OtherBodies ==
    {RawBody(f, "absent", "absent", NoError) : f \in {"array", "malformed", "undecodable"}}
Bodies == ObjectBodies \cup OtherBodies
\* the body of the scenario of C15
ScenarioBody ==
    RawBody("object", "conversion.failed", "j1",
            [given |-> TRUE, message |-> "bad input", code |-> "E1"])

\* header values and digests are strings; a string is modelled by what it was
\* made from.  hmac.new(key, msg, sha256).hexdigest() is 64 hex characters; two
\* digests are equal exactly when key and message are (collisions of
\* HMAC-SHA256 are left out), and no digest equals one of the other strings.
Text(t, k, m, a) == [text |-> t, key |-> k, msg |-> m, ascii |-> a]
NoBody == RawBody("none", "absent", "absent", NoError)
hexdigest(key, msg) == Text("hexdigest", key, msg, TRUE)
EmptyString == Text("", "", NoBody, TRUE)
\* "deadbeef", and a value with a character outside ASCII
OtherStrings == {Text("deadbeef", "", NoBody, TRUE), Text("sign\\u00e9", "", NoBody, FALSE)}

\* the X-Webhook-Signature header of a request with the given body: not sent, or
\* sent with the digest of this body or of another under some key, or with
\* another string
NoHeader == Text("no header", "", NoBody, TRUE)
Headers(body) ==
    {NoHeader, EmptyString} \cup OtherStrings
    \cup {hexdigest(k, m) : k \in Keys, m \in {body, ScenarioBody}}
Requests == UNION {{[body |-> b, header |-> h] : h \in Headers(b)} : b \in Bodies}
NoRequest == [body |-> NoBody, header |-> NoHeader]

\* request.headers.get('X-Webhook-Signature', '')
HeaderGet(req) == IF req.header = NoHeader THEN EmptyString ELSE req.header

\* the signature check that accepts an empty signature
verify_signature_lenient(secret, payload, signature) ==
    IF secret = "" \/ signature = EmptyString THEN "True"
    ELSE IF ~signature.ascii THEN "TypeError"
    ELSE IF hexdigest(secret, payload) = signature THEN "True" ELSE "False"
\* verify_signature: "True", "False", or the TypeError that hmac.compare_digest
\* raises for a str with a character outside ASCII
verify_signature(secret, payload, signature) ==
    IF secret = "" THEN "True"
    ELSE IF ~signature.ascii THEN "TypeError"
    ELSE IF hexdigest(secret, payload) = signature THEN "True" ELSE "False"

\* json.loads(raw_data): the value, or the exception raised
NoValue == [type |-> "none", event |-> "absent", job_id |-> "absent", error |-> NoError]
json_loads(raw) ==
    IF raw.form = "object"
      THEN [raises |-> "no", value |-> [type |-> "dict", event |-> raw.event,
                                         job_id |-> raw.job_id, error |-> raw.error]]
    ELSE IF raw.form = "array"
      THEN [raises |-> "no", value |-> [type |-> "list", event |-> "absent",
                                         job_id |-> "absent", error |-> NoError]]
    ELSE IF raw.form = "malformed"
      THEN [raises |-> "JSONDecodeError", value |-> NoValue]
    ELSE [raises |-> "UnicodeDecodeError", value |-> NoValue]

\* dict.get(key): None for a key that is not there
Get(v) == IF v = "absent" THEN "None" ELSE v

\* a response of the receiver: HTTP status and the members of its JSON body,
\* "absent" for a member that is not there
Reply(c, s, m, j, e) == [code |-> c, status |-> s, message |-> m, job_id |-> j, error |-> e]
NoReply == Reply(0, "absent", "absent", "absent", "absent")
Unauthorized == Reply(401, "absent", "absent", "absent", "Invalid signature")
BadRequest == Reply(400, "absent", "absent", "absent", "Invalid JSON")
ServerError == Reply(500, "absent", "absent", "absent", "Internal server error")

\* process_webhook_event: the dict it returns, or raises when event_data has
\* no get().  member is the member of the error object that is returned.
ProcessWebhookEvent(d, member) ==
    IF d.type # "dict" THEN [raises |-> TRUE, result |-> NoReply]
    ELSE LET event_type == Get(d.event)
             job_id == Get(d.job_id)
             Result(st, msg, err) ==
                 [raises |-> FALSE, result |-> Reply(200, st, msg, job_id, err)]
         IN  IF event_type = "conversion.completed"
               THEN Result("success", "Conversion completed event processed", "absent")
             ELSE IF event_type = "conversion.failed"
               THEN Result("failed", "Conversion failed event processed",
                           IF member = "message" THEN d.error.message ELSE d.error.code)
             ELSE IF event_type = "conversion.progress"
               THEN Result("progress", "Progress update processed", "absent")
             ELSE IF event_type = "upload.completed"
               THEN Result("uploaded", "Upload completed event processed", "absent")
             ELSE Result("unknown", "Unknown event type", "absent")

\* the failed branch returning the error's code
process_webhook_event_code(d) == ProcessWebhookEvent(d, "code")
process_webhook_event(d) == ProcessWebhookEvent(d, "message")

\* webhook(): the response to one request handled from start to end
webhook(secret, req) ==
    LET verdict == verify_signature(secret, req.body, HeaderGet(req))
        loaded == json_loads(req.body)
        processed == process_webhook_event(loaded.value)
    IN  IF secret # "" /\ verdict = "TypeError" THEN ServerError
        ELSE IF secret # "" /\ verdict = "False" THEN Unauthorized
        ELSE IF loaded.raises = "JSONDecodeError" THEN BadRequest
        ELSE IF loaded.raises # "no" THEN ServerError
        ELSE IF processed.raises THEN ServerError
        ELSE processed.result

\* a script before its first step
ScriptStart ==
    /\ pc = "start"
    /\ exitCode = -1
    /\ outcome = "none"
    /\ status = "unset"
    /\ attempts = 0
    /\ job_status = None
    /\ previous_status = "None"
    /\ chunk_size = 0
    /\ total_chunks = 0
    /\ chunk_index = 0
    /\ file_pos = 0
    /\ session = << >>
    /\ reqs = 0
    /\ sleeps = 0
    /\ sleepsSince = 0
    /\ gapBad = FALSE
    /\ polled = "none"
    /\ steady = TRUE
    /\ pollErr = FALSE
    /\ afterPollErr = FALSE
    /\ failed = FALSE
    /\ afterFail = FALSE
    /\ resultAt = "none"
    /\ errorAt = "none"
    /\ total_size = 0
    /\ actual_size = 0
    /\ warned = FALSE
    /\ interrupted = "no"
    /\ answered = "none"
    /\ deletes = 0
    /\ cached = FALSE

\* the receiver with no request in hand
ServerStart ==
    /\ request = [w \in Workers |-> NoRequest]
    /\ wpc = [w \in Workers |-> "idle"]
    /\ event_data = [w \in Workers |-> NoValue]
    /\ response = [w \in Workers |-> NoReply]
    /\ logged = 0

Init ==
    /\ flow \in Flows
    /\ env \in Envs
    /\ IF flow = "chunked"
         THEN chunk_opt \in ChunkOptions /\ file_size \in FileSizes
         ELSE chunk_opt = Unset /\ file_size = 0
    /\ IF flow = "download_result"
         THEN download \in {"none", "existing"}
         ELSE download = "none"
    /\ IF flow \in {"cancel", "delete"}
         THEN force \in BOOLEAN
         ELSE force = FALSE
    /\ ScriptStart
    /\ WEBHOOK_SECRET = ""
    /\ ServerStart

---------------------------------------------------------------------------
(* Steps shared by the definitions below *)

Exit(code, out) == pc' = "done" /\ exitCode' = code /\ outcome' = out
ExitAny(code, outs) == pc' = "done" /\ exitCode' = code /\ outcome' \in outs
ExitKeep(code) == pc' = "done" /\ exitCode' = code /\ UNCHANGED outcome
Goto(p) == pc' = p /\ UNCHANGED <<exitCode, outcome>>

\* a request other than a status request was sent and answered by r
HistRequest(r) ==
    /\ failed' = (failed \/ Failure(r))
    /\ afterFail' = (afterFail \/ failed)
    /\ afterPollErr' = (afterPollErr \/ pollErr)
    /\ UNCHANGED <<reqs, sleeps, sleepsSince, gapBad, polled, steady, pollErr>>

\* the history counters stop one above the largest attempt ceiling, a value no
\* loop that honours its ceiling reaches
HistCap == MaxAttemptsWatch + 1
Counted(n) == IF n < HistCap THEN n + 1 ELSE n

\* GET /jobs/{job_id} was sent and answered by r
HistStatus(r) ==
    /\ reqs' = Counted(reqs)
    /\ gapBad' = (gapBad \/ (reqs > 0 /\ sleepsSince # 1))
    /\ sleepsSince' = 0
    /\ polled' = Carried(r)
    /\ steady' = (steady /\ Carried(r) \in Waiting)
    /\ pollErr' = (pollErr \/ HttpError(r))
    /\ afterPollErr' = (afterPollErr \/ pollErr)
    /\ failed' = (failed \/ Failure(r))
    /\ afterFail' = (afterFail \/ failed)
    /\ UNCHANGED sleeps

\* time.sleep(2) was called
HistSleep ==
    /\ sleeps' = Counted(sleeps)
    /\ sleepsSince' = IF sleepsSince < 2 THEN sleepsSince + 1 ELSE 2
    /\ afterPollErr' = (afterPollErr \/ pollErr)
    /\ UNCHANGED <<reqs, gapBad, polled, steady, pollErr, failed, afterFail>>

---------------------------------------------------------------------------
(* convert.py and convert-from-url.py: the two scripts share their code but *)
(* for the endpoint, the ceiling and the handling of an error body          *)

\* the checks before the first request: API key, input file or URL, size limit
ConvValidate(f) ==
    /\ flow = f /\ pc = "start"
    /\ IF env # "ok" THEN Exit(1, "Rejected") ELSE Goto("submit")
    /\ UNCHANGED <<inputs, poll, upl, hist, download>>

\* POST /convert or /convert-url, and the cached-result test on its answer
ConvSubmit(f) ==
    /\ flow = f /\ pc = "submit"
    /\ \E r \in Responses :
        /\ HistRequest(r)
        /\ cached' = IsCached(r)
        /\ IF Raised(r)
             THEN Exit(1, "RequestError") /\ UNCHANGED poll
           ELSE IF r.code >= 400
             THEN /\ IF r.json \/ f = "url"
                       THEN Exit(1, "RequestError")
                       ELSE ExitAny(1, JsonErrorOutcomes)
                  /\ UNCHANGED poll
           ELSE IF ~r.json
             THEN ExitAny(1, JsonErrorOutcomes) /\ UNCHANGED poll
           ELSE IF ~r.id
             THEN Exit(1, "Unexpected") /\ UNCHANGED poll
           ELSE LET st == IF r.status = "absent" THEN "processing" ELSE r.status IN
                /\ status' = st
                /\ IF st = "completed" /\ r.result # "absent"
                     THEN /\ job_status' = Body(r)
                          /\ Goto("handle")
                          /\ UNCHANGED attempts
                     ELSE /\ attempts' = 0
                          /\ job_status' = None
                          /\ Goto("loop")
                /\ UNCHANGED previous_status
    /\ UNCHANGED <<cfg, shown, del, upl, download>>

\* while status in ['processing', 'queued', 'pending'] and attempts < max_attempts
PollTest(f, ceiling) ==
    /\ flow = f /\ pc = "loop"
    /\ IF status \in Waiting /\ attempts < ceiling
         THEN Goto("sleep")
         ELSE Goto("handle")
    /\ UNCHANGED <<inputs, poll, upl, hist, download>>

\* time.sleep(2); attempts += 1
PollSleep(f, step) ==
    /\ flow = f /\ pc = "sleep"
    /\ HistSleep
    /\ attempts' = attempts + step
    /\ Goto("get")
    /\ UNCHANGED <<inputs, status, job_status, previous_status, upl, download>>

\* GET /jobs/{job_id} inside the loop; strict: status is read with ['status']
PollGet(f, strict) ==
    /\ flow = f /\ pc = "get"
    /\ \E r \in StatusResponses :
        /\ HistStatus(r)
        /\ IF Raised(r) \/ HttpError(r)
             THEN Exit(1, "RequestError") /\ UNCHANGED <<status, job_status>>
           ELSE IF ~r.json
             THEN ExitAny(1, JsonErrorOutcomes) /\ UNCHANGED <<status, job_status>>
           ELSE IF strict /\ r.status = "absent"
             THEN Exit(1, "Unexpected") /\ job_status' = Body(r) /\ UNCHANGED status
           ELSE /\ job_status' = Body(r)
                /\ status' = IF r.status = "absent" THEN "processing" ELSE r.status
                /\ Goto("loop")
    /\ UNCHANGED <<inputs, attempts, previous_status, upl, download>>

\* the result handler: completed with a download_url, failed, anything else
ResultHandler(f, failedCode) ==
    /\ flow = f /\ pc = "handle"
    /\ IF status = "completed"
         THEN IF ~job_status.set
                THEN Exit(1, "Unexpected") /\ UNCHANGED shown
              ELSE IF job_status.result = "url"
                THEN /\ pc' = "ask" /\ outcome' = "Completed" /\ UNCHANGED exitCode
                     /\ resultAt' = status /\ UNCHANGED errorAt
              ELSE Exit(1, "TimedOut") /\ UNCHANGED shown
       ELSE IF status = "failed"
         THEN IF ~job_status.set
                THEN Exit(1, "Unexpected") /\ UNCHANGED shown
                ELSE /\ Exit(failedCode, "Failed")
                     /\ errorAt' = IF job_status.error THEN status ELSE errorAt
                     /\ UNCHANGED resultAt
       ELSE Exit(1, "TimedOut") /\ UNCHANGED shown
    /\ UNCHANGED <<cfg, del, cached, poll, upl, hist, download>>

\* --output, or the answer to "Download converted file? (y/n)"
AskDownload(f) ==
    /\ flow = f /\ pc = "ask"
    /\ \E wanted \in BOOLEAN :
        IF wanted THEN Goto("download") ELSE ExitKeep(0)
    /\ UNCHANGED <<inputs, poll, upl, hist, download>>

\* the streamed GET of the download_url; on HTTP 200 the output file is opened
ConvDownload(f) ==
    /\ flow = f /\ pc = "download"
    /\ \E r \in BareResponses :
        /\ HistRequest(r)
        /\ IF Raised(r)
             THEN download' = "none" /\ ExitKeep(1)
           ELSE IF r.code = 200
             THEN download' = "partial" /\ Goto("write")
           ELSE download' = "failed" /\ ExitKeep(0)
    /\ UNCHANGED <<inputs, poll, upl>>

\* the loop over iter_content ran to its end and the file was closed
ConvWrite(f) ==
    /\ flow = f /\ pc = "write"
    /\ download' = "saved"
    /\ ExitKeep(0)
    /\ UNCHANGED <<inputs, poll, upl, hist>>

\* where a keyboard interrupt is taken: while the output file is being written,
\* and in download-result.py anywhere in the try block
InterruptPoints(f) ==
    IF f = "download_result" THEN {"job", "download", "write"} ELSE {"write"}

\* the handler of KeyboardInterrupt: a message and sys.exit(1); unlink says
\* whether it removes the file found at the output path first, be it the one
\* this run opened or one that was there before
KeyboardInterrupt(f, unlink) ==
    /\ flow = f /\ pc \in InterruptPoints(f)
    /\ interrupted' = pc
    /\ download' = IF unlink /\ download \in {"partial", "existing"}
                      THEN "removed" ELSE download
    /\ ExitKeep(1)
    /\ UNCHANGED <<flow, env, chunk_opt, file_size, web, force, del, cached, total_size, actual_size,
                   warned, shown, poll, upl, hist>>

convert_file_validate == ConvValidate("simple")
convert_file_submit == ConvSubmit("simple")
convert_file_loop == PollTest("simple", MaxAttemptsSimple)
\* the loop counter left as it is
convert_file_sleep_uncounted == PollSleep("simple", 0)
convert_file_sleep == PollSleep("simple", 1)
convert_file_get == PollGet("simple", FALSE)
\* the failed branch leaving with status 0
convert_file_handle_exit0 == ResultHandler("simple", 0)
convert_file_handle == ResultHandler("simple", 1)
convert_file_ask == AskDownload("simple")
convert_file_download == ConvDownload("simple")
convert_file_write == ConvWrite("simple")
convert_file_interrupt == KeyboardInterrupt("simple", FALSE)

convert_from_url_validate == ConvValidate("url")
convert_from_url_submit == ConvSubmit("url")
convert_from_url_loop == PollTest("url", MaxAttemptsUrl)
convert_from_url_sleep == PollSleep("url", 1)
convert_from_url_get == PollGet("url", FALSE)
convert_from_url_handle == ResultHandler("url", 1)
convert_from_url_ask == AskDownload("url")
convert_from_url_download == ConvDownload("url")
convert_from_url_write == ConvWrite("url")
convert_from_url_interrupt == KeyboardInterrupt("url", FALSE)

---------------------------------------------------------------------------
(* upload-large-file.py *)

Min(a, b) == IF a <= b THEN a ELSE b

\* math.ceil(a / b) for b # 0.  The quotient is a float, exact enough here: with
\* a <= 2^31 and b a multiple of 2^20 its error is far below the 1/b that
\* separates an inexact quotient from the integer under it.
\* integer division in place of math.ceil
Ceil_floor(a, b) == IF b > 0 THEN a \div b ELSE -(a \div (-b))
Ceil(a, b) == IF b > 0 THEN (a + b - 1) \div b ELSE -(a \div (-b))

\* int(options['chunk_size']) with the default on ValueError or when not given
chunk_size_mb == IF chunk_opt.kind = "int" THEN chunk_opt.value ELSE DefaultChunkMB

\* the checks before the first request, the chunk size and the chunk count;
\* a chunk size of 0 makes the division raise outside the try block
upload_large_file_validate ==
    /\ flow = "chunked" /\ pc = "start"
    /\ IF env # "ok"
         THEN Exit(1, "Rejected") /\ UNCHANGED <<chunk_size, total_chunks>>
       ELSE IF chunk_size_mb = 0
         THEN /\ Exit(1, "Unexpected")
              /\ chunk_size' = 0
              /\ UNCHANGED total_chunks
       ELSE /\ chunk_size' = chunk_size_mb * MiB
            /\ total_chunks' = Ceil(file_size, chunk_size_mb * MiB)
            /\ Goto("init")
    /\ UNCHANGED <<inputs, poll, hist, download, chunk_index, file_pos, session>>

\* one request of the upload session as the server saw it, and how it answered
Sent(op, idx, len, r) ==
    [op |-> op, idx |-> idx, len |-> len, ok |-> ~Failure(r), refused |-> HttpError(r)]

\* POST /upload/init announcing file_size and total_chunks
upload_large_file_init ==
    /\ flow = "chunked" /\ pc = "init"
    /\ \E r \in Responses :
        /\ HistRequest(r)
        /\ session' = Append(session, Sent("init", total_chunks, file_size, r))
        /\ IF Raised(r)
             THEN Exit(1, "RequestError")
           ELSE IF r.code >= 400
             THEN IF r.json THEN Exit(1, "RequestError") ELSE ExitAny(1, JsonErrorOutcomes)
           ELSE IF ~r.json
             THEN ExitAny(1, JsonErrorOutcomes)
           ELSE IF ~r.id
             THEN Exit(1, "Unexpected")
           ELSE Goto("chunk")
    /\ chunk_index' = 0
    /\ file_pos' = 0
    /\ UNCHANGED <<inputs, poll, download, chunk_size, total_chunks>>

\* one pass of "for chunk_index in range(total_chunks)": file.read(chunk_size),
\* POST /upload/{session_id}/chunks/{chunk_index}.  On a response with HTTP >= 400
\* the code exits ("exit"); "ignore" and "retry" are the loop going on to the next
\* chunk and the loop sending the same chunk again.
UploadChunk(onRefusal) ==
    /\ flow = "chunked" /\ pc = "chunk"
    /\ IF chunk_index < total_chunks
         THEN LET len == Min(chunk_size, file_size - file_pos) IN
              \E r \in BareResponses :
                /\ HistRequest(r)
                /\ session' = Append(session, Sent("chunk", chunk_index, len, r))
                /\ IF Raised(r)
                     THEN /\ Exit(1, "RequestError")
                          /\ file_pos' = file_pos + len
                          /\ UNCHANGED chunk_index
                   ELSE IF r.code >= 400 /\ onRefusal = "exit"
                     THEN /\ IF r.json THEN Exit(1, "RequestError")
                                       ELSE ExitAny(1, JsonErrorOutcomes)
                          /\ file_pos' = file_pos + len
                          /\ UNCHANGED chunk_index
                   ELSE IF r.code >= 400 /\ onRefusal = "retry"
                     THEN Goto("chunk") /\ UNCHANGED <<chunk_index, file_pos>>
                   ELSE /\ chunk_index' = chunk_index + 1
                        /\ file_pos' = file_pos + len
                        /\ Goto("chunk")
         ELSE /\ Goto("complete")
              /\ UNCHANGED <<hist, session, file_pos, chunk_index>>
    /\ UNCHANGED <<inputs, poll, download, chunk_size, total_chunks>>

\* the chunk loop going on without looking at the chunk's HTTP status
upload_large_file_chunk_unchecked == UploadChunk("ignore")
\* the chunk loop sending a refused chunk again
upload_large_file_chunk_retry == UploadChunk("retry")
upload_large_file_chunk == UploadChunk("exit")

\* POST /upload/{session_id}/complete, then the poll loop's initial values
upload_large_file_complete ==
    /\ flow = "chunked" /\ pc = "complete"
    /\ \E r \in Responses :
        /\ HistRequest(r)
        /\ session' = Append(session, Sent("complete", 0, 0, r))
        /\ IF Raised(r)
             THEN Exit(1, "RequestError") /\ UNCHANGED poll
           ELSE IF r.code >= 400
             THEN /\ IF r.json THEN Exit(1, "RequestError")
                               ELSE ExitAny(1, JsonErrorOutcomes)
                  /\ UNCHANGED poll
           ELSE IF ~r.json
             THEN ExitAny(1, JsonErrorOutcomes) /\ UNCHANGED poll
           ELSE IF ~r.id
             THEN Exit(1, "Unexpected") /\ UNCHANGED poll
           ELSE /\ attempts' = 0
                /\ status' = "processing"
                /\ job_status' = None
                /\ UNCHANGED previous_status
                /\ Goto("loop")
    /\ UNCHANGED <<inputs, download, chunk_size, total_chunks, chunk_index, file_pos>>

upload_large_file_loop == PollTest("chunked", MaxAttemptsChunked)
upload_large_file_sleep == PollSleep("chunked", 1)
upload_large_file_get == PollGet("chunked", TRUE)
upload_large_file_handle == ResultHandler("chunked", 1)
upload_large_file_ask == AskDownload("chunked")

\* the streamed GET of the download_url; the output file is opened whatever
\* the HTTP status
download_large_file ==
    /\ flow = "chunked" /\ pc = "download"
    /\ \E r \in BareResponses :
        /\ HistRequest(r)
        /\ IF Raised(r)
             THEN download' = "none" /\ ExitKeep(1)
             ELSE download' = "partial" /\ Goto("write")
    /\ UNCHANGED <<inputs, poll, upl>>

download_large_file_write == ConvWrite("chunked")
\* download_large_file catches Exception only; the interrupt reaches the handler
\* of upload_large_file
upload_large_file_interrupt == KeyboardInterrupt("chunked", FALSE)

---------------------------------------------------------------------------
(* ocr-image-to-text.py *)

ocr_validate ==
    /\ flow = "ocr" /\ pc = "start"
    /\ IF env # "ok" THEN Exit(1, "Rejected") ELSE Goto("submit")
    /\ UNCHANGED <<inputs, poll, upl, hist, download>>

\* POST /convert; only ConnectionError is caught, and the cached-result test
\* reads the HTTP status and result.download_url
ocr_submit ==
    /\ flow = "ocr" /\ pc = "submit"
    /\ \E r \in Responses :
        /\ HistRequest(r)
        /\ cached' = IsCached(r)
        /\ IF Raised(r)
             THEN ExitAny(1, {"RequestError", "Unexpected"}) /\ UNCHANGED <<poll, shown>>
           ELSE IF r.code >= 400
             THEN /\ IF r.json THEN Exit(1, "RequestError") ELSE Exit(1, "Unexpected")
                  /\ UNCHANGED <<poll, shown>>
           ELSE IF ~r.json
             THEN Exit(1, "Unexpected") /\ UNCHANGED <<poll, shown>>
           ELSE IF r.code = 200 /\ r.result = "url"
             THEN /\ pc' = "download" /\ outcome' = "Completed"
                  /\ resultAt' = r.status
                  /\ UNCHANGED <<exitCode, poll, errorAt>>
           ELSE IF ~r.id
             THEN Exit(1, "Unexpected") /\ UNCHANGED <<poll, shown>>
           ELSE /\ status' = "processing"
                /\ job_status' = None
                /\ attempts' = 0
                /\ UNCHANGED <<previous_status, shown>>
                /\ Goto("loop")
    /\ UNCHANGED <<cfg, del, upl, download>>

\* for _ in range(max_attempts): if status not in ('processing', 'queued'): break
ocr_loop ==
    /\ flow = "ocr" /\ pc = "loop"
    /\ IF attempts < MaxAttemptsOcr /\ status \in {"processing", "queued"}
         THEN attempts' = attempts + 1 /\ Goto("sleep")
         ELSE UNCHANGED attempts /\ Goto("handle")
    /\ UNCHANGED <<inputs, status, job_status, previous_status, upl, hist, download>>

ocr_sleep ==
    /\ flow = "ocr" /\ pc = "sleep"
    /\ HistSleep
    /\ Goto("get")
    /\ UNCHANGED <<inputs, poll, upl, download>>

\* GET /jobs/{job_id}: the HTTP status is not looked at, and an exception from
\* the request or from resp.json() is swallowed by "continue"
ocr_get ==
    /\ flow = "ocr" /\ pc = "get"
    /\ \E r \in StatusResponses :
        /\ HistStatus(r)
        /\ IF Raised(r) \/ ~r.json
             THEN UNCHANGED <<status, job_status>>
             ELSE /\ job_status' = Body(r)
                  /\ status' = IF r.status = "absent" THEN "unknown" ELSE r.status
        /\ Goto("loop")
    /\ UNCHANGED <<inputs, attempts, previous_status, upl, download>>

\* completed reads job_status['result']['download_url'] without a test
OcrHandler(failedCode) ==
    /\ flow = "ocr" /\ pc = "handle"
    /\ IF status = "completed"
         THEN IF job_status.result = "url"
                THEN /\ pc' = "download" /\ outcome' = "Completed" /\ UNCHANGED exitCode
                     /\ resultAt' = status /\ UNCHANGED errorAt
                ELSE Exit(1, "Unexpected") /\ UNCHANGED shown
       ELSE IF status = "failed"
         THEN /\ Exit(failedCode, "Failed")
              /\ errorAt' = status
              /\ UNCHANGED resultAt
       ELSE Exit(1, "TimedOut") /\ UNCHANGED shown
    /\ UNCHANGED <<cfg, del, cached, poll, upl, hist, download>>

ocr_handle == OcrHandler(1)

\* requests.get, raise_for_status, write; nothing here is caught
download_and_display ==
    /\ flow = "ocr" /\ pc = "download"
    /\ \E r \in BareResponses :
        /\ HistRequest(r)
        /\ IF Raised(r) \/ r.code >= 400
             THEN download' = "none" /\ ExitKeep(1)
             ELSE download' = "partial" /\ Goto("write")
    /\ UNCHANGED <<inputs, poll, upl>>

download_and_display_write == ConvWrite("ocr")
\* the interrupt is caught around main()
ocr_interrupt == KeyboardInterrupt("ocr", FALSE)

---------------------------------------------------------------------------
(* check-status.py --watch *)

check_status_validate ==
    /\ flow = "watch" /\ pc = "start"
    /\ IF env = "no_key" THEN Exit(1, "Rejected") ELSE Goto("loop")
    /\ UNCHANGED <<inputs, poll, upl, hist, download>>

\* while attempts < max_attempts
check_status_loop ==
    /\ flow = "watch" /\ pc = "loop"
    /\ IF attempts < MaxAttemptsWatch THEN Goto("get") ELSE Goto("after")
    /\ UNCHANGED <<inputs, poll, upl, hist, download>>

\* GET /jobs/{job_id} and the dispatch on a changed status
CheckStatusGet(failedCode, cancelledCode) ==
    /\ flow = "watch" /\ pc = "get"
    /\ \E r \in StatusResponses :
        /\ HistStatus(r)
        /\ IF Raised(r)
             THEN Exit(1, "RequestError") /\ UNCHANGED <<status, previous_status, shown>>
           ELSE IF r.code >= 400
             THEN /\ IF r.json THEN Exit(1, "RequestError")
                               ELSE ExitAny(1, JsonErrorOutcomes)
                  /\ UNCHANGED <<status, previous_status, shown>>
           ELSE IF ~r.json
             THEN /\ ExitAny(1, JsonErrorOutcomes)
                  /\ UNCHANGED <<status, previous_status, shown>>
           ELSE IF r.status = "absent"
             THEN Exit(1, "Unexpected") /\ UNCHANGED <<status, previous_status, shown>>
           ELSE /\ status' = r.status
                /\ IF r.status # previous_status
                     THEN IF r.status = "completed"
                            THEN /\ pc' = "after" /\ outcome' = "Completed"
                                 /\ resultAt' = IF r.result # "absent" THEN r.status
                                                                       ELSE resultAt
                                 /\ UNCHANGED <<exitCode, previous_status, errorAt>>
                          ELSE IF r.status = "failed"
                            THEN /\ Exit(failedCode, "Failed")
                                 /\ errorAt' = IF r.error THEN r.status ELSE errorAt
                                 /\ UNCHANGED <<previous_status, resultAt>>
                          ELSE IF r.status = "cancelled"
                            THEN /\ Exit(cancelledCode, "Cancelled")
                                 /\ UNCHANGED <<previous_status, shown>>
                          ELSE /\ previous_status' = r.status /\ Goto("sleep")
                               /\ UNCHANGED shown
                     ELSE /\ IF r.status \in Terminal THEN Goto("after") ELSE Goto("sleep")
                          /\ UNCHANGED <<previous_status, shown>>
    /\ UNCHANGED <<cfg, del, cached, attempts, job_status, upl, download>>

check_status_get == CheckStatusGet(1, 0)

\* time.sleep(2); attempts += 1
check_status_sleep ==
    /\ flow = "watch" /\ pc = "sleep"
    /\ HistSleep
    /\ attempts' = attempts + 1
    /\ Goto("loop")
    /\ UNCHANGED <<inputs, status, job_status, previous_status, upl, download>>

\* if attempts >= max_attempts: the timeout advice; then the function returns
CheckStatusAfter(timeoutCode) ==
    /\ flow = "watch" /\ pc = "after"
    /\ IF attempts >= MaxAttemptsWatch
         THEN Exit(timeoutCode, "TimedOut")
         ELSE ExitKeep(0)
    /\ UNCHANGED <<inputs, poll, upl, hist, download>>

check_status_after == CheckStatusAfter(0)

---------------------------------------------------------------------------
(* check-status.py without --watch *)

check_status_once_validate ==
    /\ flow = "check" /\ pc = "start"
    /\ IF env = "no_key" THEN Exit(1, "Rejected") ELSE Goto("get")
    /\ UNCHANGED <<inputs, poll, upl, hist, download>>

\* the single GET /jobs/{job_id} and the lines printed for its status; always
\* says whether display_job_details is called for every status
CheckStatusOnce(always) ==
    /\ flow = "check" /\ pc = "get"
    /\ \E r \in StatusResponses :
        /\ HistRequest(r)
        /\ IF Raised(r)
             THEN Exit(1, "RequestError") /\ UNCHANGED <<status, shown>>
           ELSE IF r.code >= 400
             THEN /\ IF r.json THEN Exit(1, "RequestError")
                               ELSE ExitAny(1, JsonErrorOutcomes)
                  /\ UNCHANGED <<status, shown>>
           ELSE IF ~r.json
             THEN ExitAny(1, JsonErrorOutcomes) /\ UNCHANGED <<status, shown>>
           ELSE IF r.status = "absent"
             THEN Exit(1, "Unexpected") /\ UNCHANGED <<status, shown>>
           ELSE /\ status' = r.status
                /\ resultAt' = IF (always \/ r.status = "completed") /\ r.result # "absent"
                                 THEN r.status ELSE resultAt
                /\ errorAt' = IF r.status = "failed" /\ r.error THEN r.status ELSE errorAt
                /\ Exit(0, IF r.status \in Terminal THEN OutcomeOfStatus(r.status)
                                                    ELSE "Waiting")
    /\ UNCHANGED <<cfg, del, cached, attempts, job_status, previous_status, upl, download>>

\* display_job_details called for every status
check_status_once_always == CheckStatusOnce(TRUE)
check_status_once == CheckStatusOnce(FALSE)

---------------------------------------------------------------------------
(* download-result.py *)

download_result_validate ==
    /\ flow = "download_result" /\ pc = "start"
    /\ IF env = "no_key" THEN Exit(1, "Rejected") ELSE Goto("job")
    /\ UNCHANGED <<inputs, poll, upl, hist, download>>

\* GET /jobs/{job_id}; the file is fetched only for a completed job with a
\* download_url
download_result_job ==
    /\ flow = "download_result" /\ pc = "job"
    /\ \E r \in StatusResponses :
        /\ HistRequest(r)
        /\ IF Raised(r)
             THEN Exit(1, "RequestError") /\ UNCHANGED <<status, job_status, shown>>
           ELSE IF r.code >= 400
             THEN /\ IF r.json THEN Exit(1, "RequestError")
                               ELSE ExitAny(1, JsonErrorOutcomes)
                  /\ UNCHANGED <<status, job_status, shown>>
           ELSE IF ~r.json
             THEN ExitAny(1, JsonErrorOutcomes) /\ UNCHANGED <<status, job_status, shown>>
           ELSE /\ status' = IF r.status = "absent" THEN "unknown" ELSE r.status
                /\ job_status' = Body(r)
                /\ IF r.status # "completed"
                     THEN /\ Exit(1, "NotAvailable")
                          /\ errorAt' = IF r.status = "failed" /\ r.error
                                          THEN r.status ELSE errorAt
                          /\ UNCHANGED resultAt
                   ELSE IF r.result # "url"
                     THEN Exit(1, "NotAvailable") /\ UNCHANGED shown
                   ELSE /\ resultAt' = r.status
                        /\ UNCHANGED errorAt
                        /\ Goto("download")
    /\ UNCHANGED <<cfg, del, cached, attempts, previous_status, upl, download>>

\* what the content-length header of the download response holds
ContentLengths ==
    [kind : {"absent", "invalid"}, value : {0}] \cup [kind : {"int"}, value : 0..MaxDownload]

\* requests.get(download_url, stream=True), int(content-length), open(output_file)
download_result_get ==
    /\ flow = "download_result" /\ pc = "download"
    /\ \E r \in BareResponses :
        /\ HistRequest(r)
        /\ IF Raised(r)
             THEN Exit(1, "RequestError") /\ UNCHANGED <<total_size, download>>
           ELSE IF r.code # 200
             THEN Exit(1, "DownloadFailed") /\ UNCHANGED <<total_size, download>>
           ELSE \E h \in ContentLengths :
                  IF h.kind = "invalid"
                    THEN Exit(1, "Unexpected") /\ UNCHANGED <<total_size, download>>
                    ELSE /\ total_size' = h.value
                         /\ download' = "partial"
                         /\ Goto("write")
    /\ UNCHANGED <<flow, env, chunk_opt, file_size, web, force, del, cached, actual_size, warned,
                   interrupted, shown, poll, upl>>

\* one pass of the loop over iter_content: a chunk is written, or the stream
\* breaks off with an exception of requests
download_result_write ==
    /\ flow = "download_result" /\ pc = "write"
    /\ \/ /\ actual_size < MaxDownload
          /\ actual_size' = actual_size + 1
          /\ Goto("write")
       \/ /\ Exit(1, "RequestError")
          /\ UNCHANGED actual_size
    /\ UNCHANGED <<flow, env, chunk_opt, file_size, web, force, del, cached, total_size, warned,
                   interrupted, shown, poll, upl, hist, download>>

\* the stream ended: stat the file, report, and warn about a size mismatch;
\* known says whether the warning needs a content-length above zero
DownloadResultDone(known) ==
    /\ flow = "download_result" /\ pc = "write"
    /\ warned' = (actual_size # total_size /\ (known => total_size > 0))
    /\ download' = "saved"
    /\ Exit(0, "Completed")
    /\ UNCHANGED <<flow, env, chunk_opt, file_size, web, force, del, cached, total_size, actual_size,
                   interrupted, shown, poll, upl, hist>>

\* the warning printed for any difference from total_size
download_result_done_any == DownloadResultDone(FALSE)
download_result_done == DownloadResultDone(TRUE)

\* "if output_file and Path(output_file).exists(): Path(output_file).unlink()"
download_result_interrupt == KeyboardInterrupt("download_result", TRUE)

---------------------------------------------------------------------------
(* cancel-job.py and delete-file.py *)

\* the API key check before the try block
DelValidate(f) ==
    /\ flow = f /\ pc = "start"
    /\ IF env = "no_key" THEN Exit(1, "Rejected") ELSE Goto("job")
    /\ UNCHANGED <<inputs, poll, upl, hist, download>>

cancel_job_validate == DelValidate("cancel")
delete_file_validate == DelValidate("delete")

\* the answer to GET /jobs/{job_id} from which status = job['status'] is read
HasStatus(r) == ~Raised(r) /\ r.code < 400 /\ r.json /\ r.status # "absent"

\* the ways both scripts end on any other answer: the call raises, HTTP >= 400,
\* a body that is no JSON, a descriptor with no status
DelJobError(r) ==
    /\ IF Raised(r)
         THEN Exit(1, "RequestError")
       ELSE IF r.code >= 400
         THEN IF r.json THEN Exit(1, "RequestError")
                        ELSE ExitAny(1, JsonErrorOutcomes)
       ELSE IF ~r.json
         THEN ExitAny(1, JsonErrorOutcomes)
       ELSE Exit(1, "Unexpected")
    /\ UNCHANGED <<status, job_status, shown>>

\* cancel-job.py: the status request; a job in one of the statuses of stops is
\* reported and left alone with exit status 0, any other goes on to the
\* confirmation
CancelJobStatus(stops) ==
    /\ flow = "cancel" /\ pc = "job"
    /\ \E r \in StatusResponses :
        /\ HistRequest(r)
        /\ IF ~HasStatus(r)
             THEN DelJobError(r)
             ELSE /\ status' = r.status
                  /\ job_status' = Body(r)
                  /\ IF r.status \in stops
                       THEN /\ Exit(0, "NothingToDo")
                            /\ resultAt' = IF r.status = "completed" /\ r.result = "url"
                                             THEN r.status ELSE resultAt
                            /\ errorAt' = IF r.status = "failed" /\ r.error
                                            THEN r.status ELSE errorAt
                       ELSE Goto("confirm") /\ UNCHANGED shown
    /\ UNCHANGED <<cfg, del, cached, attempts, previous_status, upl, download>>

\* the DELETE attempted on a job that is cancelled already
cancel_job_status_again == CancelJobStatus({"completed", "failed"})
cancel_job_status == CancelJobStatus(Terminal)

\* delete-file.py: the status request; only a completed job whose result has a
\* download_url has a file, anything else ends the run with exit status 0
delete_file_status ==
    /\ flow = "delete" /\ pc = "job"
    /\ \E r \in StatusResponses :
        /\ HistRequest(r)
        /\ IF ~HasStatus(r)
             THEN DelJobError(r)
             ELSE /\ status' = r.status
                  /\ job_status' = Body(r)
                  /\ IF r.status # "completed" \/ r.result # "url"
                       THEN Exit(0, "NothingToDo") /\ UNCHANGED shown
                       ELSE /\ Goto("confirm")
                            /\ resultAt' = r.status
                            /\ UNCHANGED errorAt
    /\ UNCHANGED <<cfg, del, cached, attempts, previous_status, upl, download>>

\* "if not force:" the prompt, and sys.exit(0) on an answer other than y; asks
\* says whether the script asks at all
DelConfirm(f, asks) ==
    /\ flow = f /\ pc = "confirm"
    /\ IF asks /\ ~force
         THEN \E a \in Answers :
                /\ answered' = a
                /\ IF a = "y" THEN Goto("delete") ELSE Exit(0, "Aborted")
         ELSE Goto("delete") /\ UNCHANGED answered
    /\ UNCHANGED <<cfg, shown, cached, deletes, poll, upl, hist, download>>

cancel_job_confirm == DelConfirm("cancel", TRUE)
\* the file deleted without asking
delete_file_confirm_skipped == DelConfirm("delete", FALSE)
delete_file_confirm == DelConfirm("delete", TRUE)

\* requests.delete(...) and the branches on its status code; gone is the set
\* of status codes reported as "File not found" without an exit status
DelSend(f, gone) ==
    /\ flow = f /\ pc = "delete"
    /\ deletes' = deletes + 1
    /\ \E r \in DeleteResponses :
        /\ HistRequest(r)
        /\ IF Raised(r)
             THEN Exit(1, "RequestError")
           ELSE IF r.code \in {200, 204}
             THEN IF r.text /\ ~r.json
                    THEN ExitAny(1, JsonErrorOutcomes)
                    ELSE Exit(0, "Deleted")
           ELSE IF r.code \in gone
             THEN Exit(0, "NotFound")
           ELSE IF r.code >= 400
             THEN IF r.json THEN Exit(1, "RequestError")
                            ELSE ExitAny(1, JsonErrorOutcomes)
           ELSE Exit(0, "none")
    /\ UNCHANGED <<cfg, shown, cached, answered, poll, upl, download>>

\* DELETE /jobs/{job_id}
cancel_job_delete == DelSend("cancel", {})
\* DELETE /jobs/{job_id}/destroy
delete_file_delete == DelSend("delete", {404})

Next ==
    \/ convert_file_validate
    \/ convert_file_submit
    \/ convert_file_loop
    \/ convert_file_sleep
    \/ convert_file_get
    \/ convert_file_handle
    \/ convert_file_ask
    \/ convert_file_download
    \/ convert_from_url_validate
    \/ convert_from_url_submit
    \/ convert_from_url_loop
    \/ convert_from_url_sleep
    \/ convert_from_url_get
    \/ convert_from_url_handle
    \/ convert_from_url_ask
    \/ convert_from_url_download
    \/ upload_large_file_validate
    \/ upload_large_file_init
    \/ upload_large_file_chunk
    \/ upload_large_file_complete
    \/ upload_large_file_loop
    \/ upload_large_file_sleep
    \/ upload_large_file_get
    \/ upload_large_file_handle
    \/ upload_large_file_ask
    \/ download_large_file
    \/ ocr_validate
    \/ ocr_submit
    \/ ocr_loop
    \/ ocr_sleep
    \/ ocr_get
    \/ ocr_handle
    \/ download_and_display
    \/ check_status_validate
    \/ check_status_loop
    \/ check_status_get
    \/ check_status_sleep
    \/ check_status_after
    \/ convert_file_write
    \/ convert_file_interrupt
    \/ convert_from_url_write
    \/ convert_from_url_interrupt
    \/ download_large_file_write
    \/ upload_large_file_interrupt
    \/ download_and_display_write
    \/ ocr_interrupt
    \/ check_status_once_validate
    \/ check_status_once
    \/ download_result_validate
    \/ download_result_job
    \/ download_result_get
    \/ download_result_write
    \/ download_result_done
    \/ download_result_interrupt
    \/ cancel_job_validate
    \/ cancel_job_status
    \/ cancel_job_confirm
    \/ cancel_job_delete
    \/ delete_file_validate
    \/ delete_file_status
    \/ delete_file_confirm
    \/ delete_file_delete

Spec == Init /\ [][Next]_vars

\* every script is a process that keeps running: each HTTP call, sleep and
\* prompt returns, so a step that can be taken is taken.  The upload is that of
\* a file of 1 MiB in one chunk: the poll loop does not read the upload's values.
FairInit ==
    /\ Init
    /\ flow = "chunked" => chunk_opt = Unset /\ file_size = MiB

FairSpec == FairInit /\ [][Next]_vars /\ WF_vars(Next)

---------------------------------------------------------------------------
(* webhook-receiver.py: POST /webhook, handled by the threads of the server *)

script == <<flow, env, chunk_opt, file_size, dl, force, shown, del, cached, ctl, poll, upl,
           hist, download>>

\* the configuration and one request in each thread's hands
WebhookInit ==
    /\ flow = "webhook"
    /\ env = "ok"
    /\ chunk_opt = Unset /\ file_size = 0
    /\ download = "none"
    /\ force = FALSE
    /\ ScriptStart
    /\ WEBHOOK_SECRET \in Secrets
    /\ ServerStart

\* thread w returns reply after logging so many records
Respond(w, reply, records) ==
    /\ response' = [response EXCEPT ![w] = reply]
    /\ wpc' = [wpc EXCEPT ![w] = "done"]
    /\ logged' = logged + records

\* records logged by process_webhook_event for an event type
EventRecords(event_type) ==
    CASE event_type = "conversion.completed" -> 6
      [] event_type = "conversion.failed" -> 5
      [] event_type = "conversion.progress" -> 5
      [] event_type = "upload.completed" -> 4
      [] OTHER -> 2

\* raw_data = request.get_data() and the signature header
webhook_receive(w) ==
    /\ flow = "webhook" /\ wpc[w] = "idle"
    /\ \E req \in Requests : request' = [request EXCEPT ![w] = req]
    /\ wpc' = [wpc EXCEPT ![w] = "verify"]
    /\ UNCHANGED <<script, WEBHOOK_SECRET, event_data, response, logged>>

\* "if WEBHOOK_SECRET and not verify_signature(raw_data, signature)"
webhook_verify(w) ==
    /\ flow = "webhook" /\ wpc[w] = "verify"
    /\ LET verdict == verify_signature(WEBHOOK_SECRET, request[w].body, HeaderGet(request[w]))
       IN  IF WEBHOOK_SECRET # "" /\ verdict = "TypeError"
             THEN Respond(w, ServerError, 1)
           ELSE IF WEBHOOK_SECRET # "" /\ verdict = "False"
             THEN Respond(w, Unauthorized, 1)
           ELSE /\ wpc' = [wpc EXCEPT ![w] = "loads"]
                /\ UNCHANGED <<response, logged>>
    /\ UNCHANGED <<script, WEBHOOK_SECRET, request, event_data>>

\* event_data = json.loads(raw_data), and the record of the event received
webhook_loads(w) ==
    /\ flow = "webhook" /\ wpc[w] = "loads"
    /\ LET loaded == json_loads(request[w].body)
       IN  IF loaded.raises = "JSONDecodeError"
             THEN Respond(w, BadRequest, 1) /\ UNCHANGED event_data
           ELSE IF loaded.raises # "no"
             THEN Respond(w, ServerError, 1) /\ UNCHANGED event_data
           ELSE /\ event_data' = [event_data EXCEPT ![w] = loaded.value]
                /\ wpc' = [wpc EXCEPT ![w] = "process"]
                /\ logged' = logged + 1
                /\ UNCHANGED response
    /\ UNCHANGED <<script, WEBHOOK_SECRET, request>>

\* result = process_webhook_event(event_data); return jsonify(result), 200.
\* own: the thread reads its own event_data; otherwise the event_data that some
\* thread loaded, as a variable of the module would hold it.
WebhookProcess(w, own) ==
    /\ flow = "webhook" /\ wpc[w] = "process"
    /\ \E v \in IF own THEN {w} ELSE {u \in Workers : wpc[u] \in {"process", "done"}} :
        LET processed == process_webhook_event(event_data[v])
        IN  IF processed.raises
              THEN Respond(w, ServerError, 1)
              ELSE Respond(w, processed.result, EventRecords(Get(event_data[v].event)))
    /\ UNCHANGED <<script, WEBHOOK_SECRET, request, event_data>>

\* event_data kept in a variable of the module
webhook_process_shared(w) == WebhookProcess(w, FALSE)
webhook_process(w) == WebhookProcess(w, TRUE)

WebhookNext ==
    \/ \E w \in Workers : webhook_receive(w)
    \/ \E w \in Workers : webhook_verify(w)
    \/ \E w \in Workers : webhook_loads(w)
    \/ \E w \in Workers : webhook_process(w)

WebhookSpec == WebhookInit /\ [][WebhookNext]_vars

---------------------------------------------------------------------------
(* The claims *)

ConversionFlows == {"simple", "url", "ocr", "chunked"}
\* the poll loop has been left
LoopLeft == pc \in {"handle", "after", "ask", "download", "write", "done"}
OutcomeOf(s) ==
    CASE s = "completed" -> "Completed"
      [] s = "failed" -> "Failed"
      [] s = "cancelled" -> "Cancelled"

\* C1: in the conversion flows, once the last status response carried a terminal
\* status (a completed one with its download_url) and the result handler has
\* reported, the reported outcome is the one of that status: Completed, Failed
\* or Cancelled, never TimedOut.
C1_TerminalOutcomeReported ==
    ( /\ flow \in ConversionFlows
      /\ polled \in Terminal
      /\ polled = "completed" => job_status.result = "url"
      /\ outcome # "none" )
        => outcome = OutcomeOf(polled)

\* C2: when every status response was a success carrying processing, queued or
\* pending and the poll loop has been left, exactly max_attempts status requests
\* were sent, consecutive ones one sleep apart, and the run ends as TimedOut.
C2_SteadyRunTimesOutAtCeiling ==
    (LoopLeft /\ reqs > 0 /\ steady)
        => /\ reqs = max_attempts
           /\ ~gapBad
           /\ pc = "done" => outcome = "TimedOut"

\* C3: after a status response with HTTP >= 400 no further request or sleep
\* happens, and the run is not reported as a job outcome (failed, timed out,
\* completed, cancelled).
C3_PollHttpErrorEndsWait ==
    pollErr
        => /\ ~afterPollErr
           /\ outcome \notin {"Failed", "TimedOut", "Completed", "Cancelled"}

\* C4: the poll loop is not left on a status response of processing, queued or
\* pending while the attempt counter is below the ceiling.
C4_WaitingStatusKeepsPolling ==
    (pc \in {"handle", "after"} /\ polled \in Waiting)
        => attempts >= max_attempts

\* C5: once an HTTP call raised or returned HTTP >= 400 the process has ended
\* and no request was sent after the failure.
C5_NoRequestAfterFailure ==
    failed => pc = "done" /\ ~afterFail

\* C6: a run that ends TimedOut at the attempt ceiling, every status response
\* having shown the job still waiting, exits with a non-zero status.
C6_TimedOutExitsNonZero ==
    (pc = "done" /\ outcome = "TimedOut" /\ reqs = max_attempts /\ steady)
        => exitCode # 0

\* C7: a run whose poll loop saw the status cancelled ends with exit status 0
\* and the Cancelled outcome.
C7_CancelledExitsZero ==
    (pc = "done" /\ polled = "cancelled")
        => exitCode = 0 /\ outcome = "Cancelled"

\* C8: a run whose poll loop saw the status failed ends with a non-zero exit
\* status, in every flow, with or without an error payload.
C8_FailedExitsNonZero ==
    (pc = "done" /\ polled = "failed") => exitCode = 1 /\ outcome = "Failed"

\* C8 witness: OCR ended on a failed descriptor that carries no error payload
C8_Witness ==
    /\ flow = "ocr" /\ pc = "done" /\ polled = "failed"
    /\ job_status.set /\ ~job_status.error
    /\ exitCode = 1

RECURSIVE SumLen(_)
SumLen(q) == IF q = << >> THEN 0 ELSE Head(q).len + SumLen(Tail(q))
Chunks == SelectSeq(session, LAMBDA e : e.op = "chunk")
CompleteSent == \E k \in 1..Len(session) : session[k].op = "complete"
\* n is the least count of chunks of c bytes that hold f bytes
IsCeil(n, f, c) == n * c >= f /\ (n = 0 \/ (n - 1) * c < f)

\* C9: with a chunk size of C >= 1 MiB, the init request announces
\* ceil(F / (C * 1048576)) chunks, every chunk sent before the last announced
\* index is C * 1048576 bytes long, and when complete is sent exactly that many
\* chunks were sent, their lengths summing to F.
C9_ChunkCountAndBytes ==
    (flow = "chunked" /\ chunk_size_mb >= 1)
        => /\ \A k \in 1..Len(session) :
                /\ session[k].op = "init"
                     => /\ IsCeil(session[k].idx, file_size, chunk_size_mb * MiB)
                        /\ session[k].len = file_size
                /\ (session[k].op = "chunk" /\ session[k].idx < session[1].idx - 1)
                     => session[k].len = chunk_size_mb * MiB
           /\ CompleteSent
                => /\ Len(Chunks) = session[1].idx
                   /\ SumLen(Chunks) = file_size

\* C9 witness: 2 MiB + 1 byte in chunks of 1 MiB went out as three chunks, the
\* last of one byte, and complete was sent
C9_Witness ==
    /\ flow = "chunked" /\ chunk_size_mb = 1 /\ file_size = 2 * MiB + 1
    /\ CompleteSent
    /\ Len(Chunks) = 3
    /\ Chunks[3].len = 1

\* C10: the upload session's requests go out as init, chunk 0, chunk 1, ...,
\* complete, each only after the one before it returned HTTP < 400; complete
\* comes after all announced chunks, init and complete at most once, and a
\* status request only after complete returned HTTP < 400.
C10_SessionOrder ==
    flow = "chunked"
        => /\ \A k \in 1..Len(session) :
                /\ k > 1 => session[k - 1].ok
                /\ (session[k].op = "init") <=> (k = 1)
                /\ session[k].op = "chunk"
                     => session[k].idx = k - 2 /\ session[k].idx < session[1].idx
                /\ session[k].op = "complete"
                     => /\ k = Len(session)
                        /\ k = 2 + (IF total_chunks > 0 THEN total_chunks ELSE 0)
           /\ reqs > 0
                => /\ Len(session) >= 2
                   /\ session[Len(session)].op = "complete"
                   /\ session[Len(session)].ok

\* C10 witness: three chunks, complete, and a first status request
C10_Witness ==
    /\ flow = "chunked" /\ reqs = 1
    /\ Len(session) = 5
    /\ session[4].op = "chunk"
    /\ session[5].op = "complete"

\* C11: in a chunked upload a response with HTTP >= 400 to init, to a chunk or
\* to complete is the last request of the run: no chunk, complete or status
\* request follows it, no chunk index is sent twice, and the process has exited
\* with a non-zero status.
C11_RefusalEndsSession ==
    flow = "chunked"
        => /\ \A k \in 1..Len(session) :
                session[k].refused
                    => /\ k = Len(session)
                       /\ reqs = 0
                       /\ pc = "done" /\ exitCode # 0
           /\ \A j, k \in 1..Len(session) :
                (session[j].op = "chunk" /\ session[k].op = "chunk"
                    /\ session[j].idx = session[k].idx) => j = k

\* C11 witness: chunk 0 was acknowledged, chunk 1 was refused, and the run ended
\* there with status 1
C11_Witness ==
    /\ flow = "chunked" /\ pc = "done" /\ exitCode = 1
    /\ Len(session) = 3
    /\ session[2].ok
    /\ session[3].op = "chunk" /\ session[3].idx = 1 /\ session[3].refused

\* the signature a handler thread read, and the one the secret and body call for
Signature(w) == HeaderGet(request[w])
Expected(w) == hexdigest(WEBHOOK_SECRET, request[w].body)
Handled(w) == wpc[w] = "done"

\* C12: with a secret configured, verify_signature succeeds exactly when the
\* X-Webhook-Signature value equals the hex HMAC-SHA256 of the raw body under the
\* secret, a missing header counting as the empty string and failing; with no
\* secret it succeeds for every body and header.  Only requests that passed go on
\* to json.loads, and 401 is returned only to requests that did not.
C12_SignatureVerification ==
    \A w \in Workers :
        wpc[w] \notin {"idle", "verify"}
            => /\ (verify_signature(WEBHOOK_SECRET, request[w].body, Signature(w)) = "True")
                    <=> (WEBHOOK_SECRET = "" \/ Signature(w) = Expected(w))
               /\ (WEBHOOK_SECRET # "" /\ request[w].header = NoHeader)
                    => verify_signature(WEBHOOK_SECRET, request[w].body, Signature(w)) # "True"
               /\ wpc[w] \in {"loads", "process"}
                    => (WEBHOOK_SECRET = "" \/ Signature(w) = Expected(w))
               /\ response[w] = Unauthorized
                    => (WEBHOOK_SECRET # "" /\ Signature(w) # Expected(w))

\* C12 witness: under the secret k1 one thread accepted the digest of its body
\* under k1 and went on to parse it, the other refused the digest of its body
\* under k2
C12_Witness ==
    /\ WEBHOOK_SECRET = "k1"
    /\ wpc["t1"] = "loads"
    /\ request["t1"].header = hexdigest("k1", request["t1"].body)
    /\ Handled("t2")
    /\ request["t2"].header = hexdigest("k2", request["t2"].body)
    /\ response["t2"] = Unauthorized

\* C13: every handled request got one status, decided in this order: 401 when a
\* secret is configured and the signature differs from the expected one, the
\* body then never parsed; otherwise 400 when the body is not valid JSON;
\* otherwise 200 with status, message and job_id in the response body.
C13_StatusOrder ==
    \A w \in Workers :
        Handled(w)
            => IF WEBHOOK_SECRET # "" /\ Signature(w) # Expected(w)
                 THEN response[w].code = 401 /\ event_data[w] = NoValue
               ELSE IF request[w].body.form \notin {"object", "array"}
                 THEN response[w].code = 400
               ELSE /\ response[w].code = 200
                    /\ response[w].status # "absent"
                    /\ response[w].message # "absent"
                    /\ response[w].job_id # "absent"

\* C14: with a secret configured, a request whose signature value differs from
\* the expected digest, whatever the value, is answered 401.
C14_MismatchIs401 ==
    \A w \in Workers :
        (Handled(w) /\ WEBHOOK_SECRET # "" /\ Signature(w) # Expected(w))
            => response[w].code = 401

\* the status process_webhook_event returns for the event member of a body
StatusFor(event) ==
    CASE event = "conversion.completed" -> "success"
      [] event = "conversion.failed" -> "failed"
      [] event = "conversion.progress" -> "progress"
      [] event = "upload.completed" -> "uploaded"
      [] OTHER -> "unknown"

C16_HandledAsAlone ==
    \A w \in Workers :
        /\ Handled(w) => response[w] = webhook(WEBHOOK_SECRET, request[w])
        /\ event_data[w] # NoValue => event_data[w] = json_loads(request[w].body).value

\* C16 witness: while one thread held a parsed event and had not answered, the
\* other answered a different event, each with its own job_id
C16_Witness ==
    /\ wpc["t1"] = "process" /\ event_data["t1"].event = "conversion.completed"
    /\ event_data["t1"].job_id = "j1"
    /\ Handled("t2") /\ request["t2"].body.event = "conversion.failed"
    /\ request["t2"].body.job_id = "absent"
    /\ response["t2"].status = "failed" /\ response["t2"].job_id = "None"

\* C17: in every script that downloads a result, a run ended by a keyboard
\* interrupt that arrived while the output file was being written leaves no
\* partly written output file behind and exits with a non-zero status.
C17_InterruptLeavesNoPartialFile ==
    (pc = "done" /\ interrupted = "write")
        => download # "partial" /\ exitCode # 0

\* C18: download_result prints the size mismatch warning exactly when the
\* content-length read is above zero and the bytes written differ from it; with
\* or without the warning a finished download keeps the file and exits 0.
C18_SizeMismatchWarning ==
    flow = "download_result"
        => /\ (pc = "done" /\ download = "saved")
                => /\ warned <=> (total_size > 0 /\ actual_size # total_size)
                   /\ exitCode = 0
           /\ warned => (pc = "done" /\ download = "saved" /\ exitCode = 0)

\* C18 witness: two units announced, one written, the warning printed, the file
\* kept and exit status 0
C18_Witness ==
    /\ flow = "download_result" /\ pc = "done"
    /\ total_size = 2 /\ actual_size = 1
    /\ warned /\ download = "saved" /\ exitCode = 0

PollFlows == ConversionFlows \cup {"watch"}

\* C19: when the poll loop has received its terminal status response, the n-th
\* status response of the run, it has slept n-1 times: once between consecutive
\* status requests and not before the first; four responses ending in completed
\* with a download_url make 3 sleeps and the outcome Completed.
C19_SleepsBetweenRequests ==
    (flow \in PollFlows /\ polled \in Terminal)
        => /\ sleeps = reqs - 1
           /\ ~gapBad
           /\ (reqs = 4 /\ polled = "completed" /\ pc = "done" /\ download = "saved")
                => (sleeps = 3 /\ outcome = "Completed")

\* C20: a script renders the result of a job descriptor only when the
\* descriptor's status is completed and its error only when the status is
\* failed, and no run renders both.
C20_RenderedByStatus ==
    /\ resultAt # "none" => resultAt = "completed"
    /\ errorAt # "none" => errorAt = "failed"
    /\ ~(resultAt # "none" /\ errorAt # "none")

\* C21: after a submit response that carried the status completed together with
\* its result, no status request is sent and no sleep is made, and what the
\* result handler reports is the Completed outcome.
C21_CachedSubmitSkipsPolling ==
    (flow \in {"simple", "url", "ocr"} /\ cached)
        => /\ reqs = 0 /\ sleeps = 0
           /\ pc \in {"handle", "ask", "download", "write", "done"}
           /\ outcome \in {"none", "Completed"}

InLoop == flow \in PollFlows /\ pc \in {"loop", "sleep", "get"}

\* C22: every poll loop that is entered is left again, whatever the status
\* responses are, and no run sends more status requests than the attempt ceiling
\* of its flow.
C22_PollLoopsTerminate ==
    /\ [](flow \in PollFlows => reqs <= max_attempts)
    /\ InLoop ~> LoopLeft

\* the watch loop spent its whole ceiling on unfinished reports and stopped
C22_Witness ==
    /\ flow = "watch" /\ reqs = MaxAttemptsWatch /\ attempts = MaxAttemptsWatch
    /\ pc = "done" /\ outcome = "TimedOut"

\* the byte count behind the speed shown after chunk k:
\* (chunk_index + 1) * chunk_size
speed_bytes(k) == (k + 1) * chunk_size

\* C23: when the chunk loop goes on after an accepted chunk, the byte count that
\* the displayed speed is computed from equals the bytes sent in the chunks so
\* far; after the last chunk that is the size of the file.
C23_SpeedCountsSentBytes ==
    (flow = "chunked" /\ pc = "chunk" /\ chunk_index > 0)
        => /\ speed_bytes(chunk_index - 1) = SumLen(Chunks)
           /\ chunk_index = total_chunks => speed_bytes(chunk_index - 1) = file_size

\* C24: whatever the --chunk-size, an init request for a file that is not empty
\* announces at least one chunk, and complete is sent only after chunks that
\* sum to the size of the file.
C24_ChunkSizeNeverLosesBytes ==
    flow = "chunked"
        => /\ \A k \in 1..Len(session) :
                (session[k].op = "init" /\ file_size > 0) => session[k].idx >= 1
           /\ CompleteSent => SumLen(Chunks) = file_size

\* C25: an interrupt that arrives before download-result.py opened the output
\* file removes nothing: a file that was at the --output path before the run
\* is still there.
C25_InterruptKeepsEarlierFile ==
    (flow = "download_result" /\ interrupted \in {"job", "download"})
        => download # "removed"

\* C26: a simple or URL conversion whose submit response carried a terminal
\* status, so that no status request was made, ends on what that response
\* says: a failed job ends as Failed, and no such run ends as an unexpected
\* internal error.
C26_SubmitResponseIsDescriptor ==
    (/\ flow \in {"simple", "url"} /\ pc = "done" /\ reqs = 0
     /\ status \in {"failed", "cancelled", "completed"})
        => /\ outcome # "Unexpected"
           /\ status = "failed" => outcome = "Failed"

\* C27: a simple or URL conversion that asked for the download and got an
\* answer to it exits with status 0 only if the answer was HTTP 200 and the
\* file was written.
C27_DownloadFailureExitsNonZero ==
    (flow \in {"simple", "url"} /\ pc = "done" /\ download # "none" /\ exitCode = 0)
        => download = "saved"

\* C28: check-status.py ends with the same exit status for the same job
\* status with and without --watch: 0 for completed and cancelled, non-zero
\* for failed.
C28_SameExitWatchOrNot ==
    (flow \in {"watch", "check"} /\ pc = "done"
     /\ outcome \in {"Completed", "Failed", "Cancelled"})
        => exitCode = (IF outcome = "Failed" THEN 1 ELSE 0)

\* C29: cancel-job.py sends DELETE /jobs/{job_id} at most once, and only after
\* its status request was answered with a status other than completed, failed
\* and cancelled, and only with --force or the answer y.
C29_CancelOnlyWhenConfirmed ==
    flow = "cancel"
        => /\ deletes <= 1
           /\ deletes > 0
                => /\ status \in BodyStatuses \ (Terminal \cup {"absent"})
                   /\ job_status.set
                   /\ force \/ answered = "y"

\* C29 witness: a processing job cancelled after the user answered y
C29_Witness ==
    /\ flow = "cancel" /\ pc = "done" /\ deletes = 1
    /\ status = "processing" /\ ~force /\ answered = "y"
    /\ outcome = "Deleted" /\ exitCode = 0

\* C30: delete-file.py sends DELETE /jobs/{job_id}/destroy at most once, and
\* only after its status request was answered with the status completed and a
\* result that has a download_url, and only with --force or the answer y.
C30_DeleteOnlyWhenConfirmed ==
    flow = "delete"
        => /\ deletes <= 1
           /\ deletes > 0
                => /\ status = "completed"
                   /\ job_status.set /\ job_status.result = "url"
                   /\ force \/ answered = "y"

\* C30 witness: the file of a completed job deleted under --force, no prompt
C30_Witness ==
    /\ flow = "delete" /\ pc = "done" /\ deletes = 1
    /\ force /\ answered = "none"
    /\ outcome = "Deleted" /\ exitCode = 0

====
